---- MODULE Spec2Model ----
(***************************************************************************)
(* Ephemeral two-party chat rooms over a keyed store (Redis).              *)
(*                                                                         *)
(* The store is the only shared state.  Every request handler is a         *)
(* sequence of awaited store / channel calls; each awaited call is one     *)
(* atomic step and the steps of different requests interleave freely.      *)
(* Wall-clock time advances between any two steps.                         *)
(***************************************************************************)
EXTENDS Integers, Sequences, FiniteSets, TLC

\* ------------------------------------------------------------------ bounds
\* Number of requests (of any kind) issued in one run.
MaxReqs == 5
\* Number of requests that are in flight at the same time.
MaxInFlight == 2
\* Number of rooms CreateRoom may create in one run.
MaxRooms == 1
\* Number of rooms CreateRoom may create beyond MaxRooms in the runs that only
\* create rooms and admit visitors (SpecRooms).
ExtraRooms == 1
\* Seconds by which one step of the clock advances time.
TickSeconds == 300
\* Largest ttl the room page is handed by GetTTL in the runs of the page
\* (SpecPage).
MaxPageTtl == 8

\* ------------------------------------------------------- program constants
ROOM_TTL_SECONDS == 600
\* z.string().max(100) / z.string().max(1000)
MaxSender == 100
MaxText == 1000
\* connected.length >= 2
RoomCapacity == 2
\* set.status = 401
AuthErrorStatus == 401
\* Math.abs(prev - newTtl) > 5
SyncThreshold == 5

\* ------------------------------------------------------------------ values
Reqs == 1..MaxReqs
Rooms == 1..(MaxRooms + ExtraRooms)
\* a missing roomId query parameter
NoRoom == 0
\* a missing / empty x-auth-token cookie
NoToken == 0
\* nanoid() tokens are 1, 2, ...; at most MaxReqs are ever issued, so this
\* value is a token the program never generated
Forged == MaxReqs + 1
\* TTL replies of the store for "no such key" and "key without expiration"
TtlNoKey == -2
TtlNoExpire == -1
\* exp field of a key that carries no expiration
NoExp == -1
\* createdAt of a metadata hash that has no such field
NoStamp == -1
\* a sender / text that is absent from the request body
Missing == -1

\* A value the store hands back for a hash field or a list entry is one of
\*   [t |-> "null"]            null / undefined
\*   [t |-> "array", v |-> s]  a native array holding the sequence s
\*   [t |-> "object", v |-> o] a native object (a record) o
\*   [t |-> "json", v |-> x]   a string that is the JSON text of the value x
\*   [t |-> "text", v |-> x]   a string that is not JSON text
Array(s) == [t |-> "array", v |-> s]
\* JSON.stringify(x): a string holding the JSON text of x
Stringify(x) == [t |-> "json", v |-> x]
\* the reply of HGET / HGETALL for a field that does not exist
NullRaw == [t |-> "null", v |-> <<>>]

\* meta:{roomId} when the key does not exist
NoMeta == [present |-> FALSE, connected |-> NullRaw, createdAt |-> NoStamp, exp |-> NoExp]
\* messages:{roomId} when the key does not exist
NoList == [present |-> FALSE, list |-> <<>>, exp |-> NoExp]
NoMsg == [id |-> 0, sender |-> Missing, text |-> Missing, timestamp |-> 0,
          roomId |-> NoRoom, token |-> NoToken]

VARIABLES
    clock,      \* seconds since the start of the run (Date.now(), store time)
    meta,       \* meta[r]: the hash meta:{r}
    msgs,       \* msgs[r]: the list messages:{r}
    events,     \* events[r]: what was published on channel r, in order
    born,       \* born[r]: the time at which CreateRoom returned room r, else NoStamp
    known,      \* room ids that CreateRoom has returned to a caller
    issued,     \* issued[r]: the tokens Admit has handed out for room r
    req,        \* req[p]: the p-th request of the run while it is in flight
    resp,       \* the response produced last
    nextRoom,   \* nanoid() for room ids
    nextToken,  \* nanoid() for session tokens
    nextMsg,    \* nanoid() for message ids
    page        \* the room page open in one participant's browser

\* the state of the server side
serverVars == <<clock, meta, msgs, events, born, known, issued, req, resp,
                nextRoom, nextToken, nextMsg>>

vars == <<clock, meta, msgs, events, born, known, issued, req, resp,
          nextRoom, nextToken, nextMsg, page>>

SeqToSet(s) == {s[i] : i \in 1..Len(s)}

\* ------------------------------------------------------------ store (Redis)
\* an existence check that always answers 1
ExistsAlways(k) == TRUE

\* EXISTS key
Exists(k) == k.present

\* TTL key
Ttl(k) == IF ~k.present THEN TtlNoKey
          ELSE IF k.exp = NoExp THEN TtlNoExpire
          ELSE k.exp - clock

\* EXPIRE key seconds: no effect on a missing key; a timeout that is not
\* positive deletes the key
Expire(k, absent, secs) ==
    IF ~k.present THEN k
    ELSE IF secs <= 0 THEN absent
    ELSE [k EXCEPT !.exp = clock + secs]

\* a CreateRoom that writes no createdAt field
HsetCreateNoStamp(k, raw, stamp) ==
    IF k.present THEN [k EXCEPT !.connected = raw]
    ELSE [present |-> TRUE, connected |-> raw, createdAt |-> NoStamp, exp |-> NoExp]

\* HSET meta:{r} {connected, createdAt}: creates the key (without expiration)
\* when it does not exist
HsetCreate(k, raw, stamp) ==
    IF k.present THEN [k EXCEPT !.connected = raw, !.createdAt = stamp]
    ELSE [present |-> TRUE, connected |-> raw, createdAt |-> stamp, exp |-> NoExp]

\* HSET meta:{r} {connected}: the other fields and the expiration of an
\* existing key stay; a missing key is created without expiration
HsetConnected(k, raw) ==
    IF k.present THEN [k EXCEPT !.connected = raw]
    ELSE [present |-> TRUE, connected |-> raw, createdAt |-> NoStamp, exp |-> NoExp]

\* HGET meta:{r} connected
Hget(k) == IF k.present THEN k.connected ELSE NullRaw

\* LPUSH in place of RPUSH: the entry goes to the front of the list
RpushFront(k, entry) ==
    IF k.present THEN [k EXCEPT !.list = <<entry>> \o @]
    ELSE [present |-> TRUE, list |-> <<entry>>, exp |-> NoExp]

\* RPUSH messages:{r} entry
Rpush(k, entry) ==
    IF k.present THEN [k EXCEPT !.list = Append(@, entry)]
    ELSE [present |-> TRUE, list |-> <<entry>>, exp |-> NoExp]

\* LRANGE messages:{r} 0 -1
Lrange(k) == IF k.present THEN k.list ELSE <<>>

\* a key whose expiration instant has been reached no longer exists
Expired(k, now) == k.present /\ k.exp # NoExp /\ k.exp <= now

\* --------------------------------------------------------------- requests
IdleReq == [op |-> "none", pc |-> "idle", room |-> NoRoom, token |-> NoToken,
            connected |-> <<>>, msg |-> NoMsg, remaining |-> 0, pending |-> {}]

\* a request that has produced its response
DoneReq == [IdleReq EXCEPT !.pc = "done"]

\* status / error of a response that no onError hook of the source has set
NoStatus == 0
NoError == "none"

\* id, op, room, token say which request is answered and outcome how its
\* handler ended (the error thrown, if any); the caller receives status, error,
\* outToken, outTtl, outMsgs and msg
NoResp == [id |-> 0, op |-> "none", room |-> NoRoom, token |-> NoToken,
           outcome |-> "none", status |-> NoStatus, error |-> NoError,
           outToken |-> NoToken, outTtl |-> 0, outMsgs |-> <<>>, msg |-> NoMsg]

\* class AuthError: the outcomes that are an AuthError thrown by the derive hook
AuthErrors == {"Unauthorized", "InvalidToken"}

\* an onError hook that hands the message of the error to the caller
OnErrorMessage(outcome) ==
    IF outcome \in AuthErrors
    THEN [status |-> AuthErrorStatus, error |-> outcome]
    ELSE [status |-> NoStatus, error |-> NoError]

\* onError: if (code === "AuthError") {set.status = 401; return {error: "Unauthorized"}}
OnError(outcome) ==
    IF outcome \in AuthErrors
    THEN [status |-> AuthErrorStatus, error |-> "Unauthorized"]
    ELSE [status |-> NoStatus, error |-> NoError]

\* the response of request p, which was op(room, token)
Response(p, op, room, token, outcome) ==
    [NoResp EXCEPT !.id = p, !.op = op, !.room = room, !.token = token,
                   !.outcome = outcome,
                   !.status = OnError(outcome).status,
                   !.error = OnError(outcome).error]

InFlight == {q \in Reqs : req[q].pc \notin {"idle", "done"}}

\* requests are numbered in the order of their first store call; at most
\* `limit` of them are in flight together
Starts(p, limit) ==
    /\ req[p].pc = "idle"
    /\ \A q \in Reqs : q < p => req[q].pc # "idle"
    /\ Cardinality(InFlight) < limit

IsNext(p) == Starts(p, MaxInFlight)

\* the room page as it mounts: const {data: ttlData} = useQuery(...) has no
\* data or the cached ttl, timeRemaining is null or that ttl (never negative),
\* both effects are due, no interval runs
NoTtlData == -1
Mounted(cached) ==
    [hasTtl |-> cached # NoTtlData,
     ttl |-> IF cached # NoTtlData THEN cached ELSE 0,
     isSet |-> cached # NoTtlData,
     timeRemaining |-> IF cached > 0 THEN cached ELSE 0,
     syncDue |-> TRUE, timerDue |-> TRUE, interval |-> FALSE, route |-> "room"]

ServerInit ==
    /\ clock = 0
    /\ meta = [r \in Rooms |-> NoMeta]
    /\ msgs = [r \in Rooms |-> NoList]
    /\ events = [r \in Rooms |-> <<>>]
    /\ born = [r \in Rooms |-> NoStamp]
    /\ known = {}
    /\ issued = [r \in Rooms |-> {}]
    /\ req = [p \in Reqs |-> IdleReq]
    /\ resp = NoResp
    /\ nextRoom = 1
    /\ nextToken = 1
    /\ nextMsg = 1

Init == ServerInit /\ page = Mounted(NoTtlData)

\* ------------------------------------------------------------- CreateRoom
\* const roomId = nanoid(); await redis.hset(`meta:${roomId}`, {...})
\* at most `rooms` rooms are created in a run
CreateFrom(p, rooms) ==
    /\ IsNext(p)
    /\ nextRoom <= rooms
    /\ meta' = [meta EXCEPT ![nextRoom] = HsetCreate(@, Stringify(Array(<<>>)), clock)]
    /\ req' = [req EXCEPT ![p] = [IdleReq EXCEPT !.op = "create", !.pc = "c_expire",
                                                 !.room = nextRoom]]
    /\ nextRoom' = nextRoom + 1
    /\ UNCHANGED <<clock, msgs, events, born, known, issued, resp, nextToken, nextMsg, page>>

CreateHset(p) == CreateFrom(p, MaxRooms)

\* await redis.expire(`meta:${roomId}`, ROOM_TTL_SECONDS); return {roomId}
CreateExpire(p) ==
    /\ req[p].pc = "c_expire"
    /\ meta' = [meta EXCEPT ![req[p].room] = Expire(@, NoMeta, ROOM_TTL_SECONDS)]
    /\ known' = known \cup {req[p].room}
    /\ born' = [born EXCEPT ![req[p].room] = clock]
    /\ req' = [req EXCEPT ![p] = DoneReq]
    /\ resp' = Response(p, "create", req[p].room, NoToken, "Created")
    /\ UNCHANGED <<clock, msgs, events, issued, nextRoom, nextToken, nextMsg, page>>

\* ------------------------------------------------------------------ Admit
\* the decoding of meta.connected in the admission proxy
ProxyConnected(raw) ==
    IF raw.t = "null" THEN <<>>
    ELSE IF raw.t = "json" THEN (IF raw.v.t = "array" THEN raw.v.v ELSE <<>>)
    ELSE IF raw.t = "text" THEN <<raw.v>>
    ELSE IF raw.t = "array" THEN raw.v
    ELSE <<>>

\* a proxy that compares the cookie with the first member only
RecognisedFirstOnly(token, connected) ==
    token # NoToken /\ connected # <<>> /\ token = connected[1]

\* existingToken && connected.includes(existingToken)
Recognised(token, connected) == token # NoToken /\ token \in SeqToSet(connected)

\* a capacity check that is off by one: connected.length > 2
IsFullOffByOne(connected) == Len(connected) > RoomCapacity

\* connected.length >= 2
IsFull(connected) == Len(connected) >= RoomCapacity

\* a proxy that does not look for the metadata: a missing hash is an empty room
AdmitDecisionNoLookup(m, token) ==
    IF Recognised(token, ProxyConnected(m.connected)) THEN "Reuse"
    ELSE IF IsFull(ProxyConnected(m.connected)) THEN "RoomFull"
    ELSE "Fresh"

\* what the proxy decides from the metadata it has read
AdmitDecision(m, token) ==
    IF ~m.present THEN "RoomNotFound"
    ELSE IF Recognised(token, ProxyConnected(m.connected)) THEN "Reuse"
    ELSE IF IsFull(ProxyConnected(m.connected)) THEN "RoomFull"
    ELSE "Fresh"

\* the cookie a browser may send: none, a token some Admit has issued, or a
\* value of the caller's own making
Cookies == {NoToken, Forged} \cup (1..(nextToken - 1))

\* const meta = await redis.hgetall(`meta:${roomId}`) and the checks on it,
\* for a request that presents one of `cookies`
AdmitFrom(p, limit, cookies) ==
    /\ Starts(p, limit)
    /\ \E r \in known, token \in cookies :
        LET d == AdmitDecision(meta[r], token) IN
        IF d = "Fresh"
        THEN /\ req' = [req EXCEPT ![p] =
                    [IdleReq EXCEPT !.op = "admit", !.pc = "a_write", !.room = r,
                                    !.token = token,
                                    !.connected = ProxyConnected(meta[r].connected)]]
             /\ UNCHANGED resp
        ELSE /\ req' = [req EXCEPT ![p] = DoneReq]
             /\ resp' = [Response(p, "admit", r, token, d) EXCEPT
                            !.outToken = IF d = "Reuse" THEN token ELSE NoToken]
    /\ UNCHANGED <<clock, meta, msgs, events, born, known, issued, nextRoom, nextToken, nextMsg, page>>

AdmitRead(p) == AdmitFrom(p, MaxInFlight, Cookies)

\* a proxy that writes the new token in place of the list it read
UpdatedConnectedAlone(connected, token) == <<token>>

\* const updatedConnected = [...connected, token]
UpdatedConnected(connected, token) == Append(connected, token)

\* a proxy that keeps the cookie of a caller who brought one
AdmitTokenKeepsCookie(existingToken, fresh) ==
    IF existingToken # NoToken THEN existingToken ELSE fresh

\* const token = nanoid(): the token of a fresh admission, whatever cookie
\* the caller brought
AdmitToken(existingToken, fresh) == fresh

\* const token = nanoid(); response.cookies.set(...);
\* await redis.hset(`meta:${roomId}`, {connected: JSON.stringify(updatedConnected)})
AdmitWrite(p) ==
    /\ req[p].pc = "a_write"
    /\ meta' = [meta EXCEPT ![req[p].room] =
                  HsetConnected(@, Stringify(Array(
                      UpdatedConnected(req[p].connected, AdmitToken(req[p].token, nextToken)))))]
    /\ nextToken' = nextToken + 1
    /\ issued' = [issued EXCEPT ![req[p].room] = @ \cup {nextToken}]
    /\ req' = [req EXCEPT ![p] = DoneReq]
    /\ resp' = [Response(p, "admit", req[p].room, req[p].token, "Admitted") EXCEPT
                    !.outToken = AdmitToken(req[p].token, nextToken)]
    /\ UNCHANGED <<clock, msgs, events, born, known, nextRoom, nextMsg, page>>

\* ----------------------------------------------------------- Authenticate
\* a middleware that only decodes strings: a native array counts as empty
AuthConnectedStringsOnly(raw) ==
    IF raw.t = "json" THEN (IF raw.v.t = "array" THEN raw.v.v ELSE <<>>)
    ELSE <<>>

\* the decoding of the connected field in the auth middleware
AuthConnected(raw) ==
    IF raw.t = "array" THEN raw.v
    ELSE IF raw.t = "null" THEN <<>>
    ELSE IF raw.t = "json" THEN (IF raw.v.t = "array" THEN raw.v.v ELSE <<>>)
    ELSE <<>>

\* if(!roomId || !token) throw new AuthError("Unauthorized")
MissingCredentials(roomId, token) == roomId = NoRoom \/ token = NoToken

\* a membership test that lets every token pass when the list is empty
NotMemberUnlessEmpty(token, connected) ==
    connected # <<>> /\ token \notin SeqToSet(connected)

\* !connected.includes(token)
NotMember(token, connected) == token \notin SeqToSet(connected)

\* a derive hook that only looks for the two credentials
AuthenticateCredentialsOnly(roomId, token) ==
    IF MissingCredentials(roomId, token) THEN "Unauthorized" ELSE "ok"

\* the derive hook: "Unauthorized", "InvalidToken" or "ok"
Authenticate(roomId, token) ==
    IF MissingCredentials(roomId, token) THEN "Unauthorized"
    ELSE IF NotMember(token, AuthConnected(Hget(meta[roomId]))) THEN "InvalidToken"
    ELSE "ok"

\* the three keys of the Promise.all of deletions in DestroyRoom
DestroyKeys == {"chat", "meta", "messages"}

\* return {auth: {roomId, token, connected}}
Session(roomId, token) ==
    [IdleReq EXCEPT !.room = roomId, !.token = token,
                    !.connected = AuthConnected(Hget(meta[roomId]))]

\* the first step of a room-scoped API request: the derive hook with its
\* store read; a request that passes goes on to its handler at pc `first`
AuthStep(p, op, first) ==
    /\ IsNext(p)
    /\ \E roomId \in known \cup {NoRoom}, token \in Cookies :
        LET a == Authenticate(roomId, token) IN
        IF a = "ok"
        THEN /\ req' = [req EXCEPT ![p] =
                    [Session(roomId, token) EXCEPT !.op = op, !.pc = first,
                        !.pending = IF op = "destroy" THEN DestroyKeys ELSE {}]]
             /\ UNCHANGED resp
        ELSE /\ req' = [req EXCEPT ![p] = DoneReq]
             /\ resp' = Response(p, op, roomId, token, a)
    /\ UNCHANGED <<clock, meta, msgs, events, born, known, issued, nextRoom, nextToken, nextMsg, page>>

\* ----------------------------------------------------------------- GetTTL
TtlAuth(p) == AuthStep(p, "ttl", "t_ttl")

\* a handler that hands the store's reply to the caller as it is
TtlReplyRaw(ttl) == ttl

\* return {ttl: ttl > 0 ? ttl : 0}
TtlReply(ttl) == IF ttl > 0 THEN ttl ELSE 0

\* const ttl = await redis.ttl(`meta:${auth.roomId}`)
TtlRead(p) ==
    /\ req[p].pc = "t_ttl"
    /\ req' = [req EXCEPT ![p] = DoneReq]
    /\ resp' = [Response(p, "ttl", req[p].room, req[p].token, "ok") EXCEPT
                    !.outTtl = TtlReply(Ttl(meta[req[p].room]))]
    /\ UNCHANGED <<clock, meta, msgs, events, born, known, issued, nextRoom, nextToken, nextMsg, page>>

\* ------------------------------------------------------------ DestroyRoom
DestroyAuth(p) == AuthStep(p, "destroy", "d_emit")

\* await realtime.channel(auth.roomId).emit("chat.destroy", {isDestroyed: true})
DestroyEmit(p) ==
    /\ req[p].pc = "d_emit"
    /\ events' = [events EXCEPT ![req[p].room] =
                    Append(@, [event |-> "chat.destroy", by |-> p, data |-> NoMsg])]
    /\ req' = [req EXCEPT ![p].pc = "d_del"]
    /\ UNCHANGED <<clock, meta, msgs, born, known, issued, resp, nextRoom, nextToken, nextMsg, page>>

\* a handler that does not await the publish before it deletes
DestroyMayDeleteUnawaited(p) == req[p].pc \in {"d_emit", "d_del"}

\* a deletion of the Promise.all may be issued when the publish has returned
DestroyMayDelete(p) == req[p].pc = "d_del"

\* one redis.del of the Promise.all; the deletions complete in any order and
\* the handler returns when all three have
DestroyDel(p) ==
    /\ DestroyMayDelete(p)
    /\ \E k \in req[p].pending :
        /\ meta' = IF k = "meta" THEN [meta EXCEPT ![req[p].room] = NoMeta] ELSE meta
        /\ msgs' = IF k = "messages" THEN [msgs EXCEPT ![req[p].room] = NoList] ELSE msgs
        /\ IF req[p].pending = {k}
           THEN /\ req' = [req EXCEPT ![p] = DoneReq]
                /\ resp' = Response(p, "destroy", req[p].room, req[p].token, "ok")
           ELSE /\ req' = [req EXCEPT ![p].pending = @ \ {k}]
                /\ UNCHANGED resp
    /\ UNCHANGED <<clock, events, born, known, issued, nextRoom, nextToken, nextMsg, page>>

\* ------------------------------------------------------------ PostMessage
\* a request body field as the length of its string, or Missing
Senders == {Missing, 5, MaxSender + 1}
Texts == {Missing, 2, MaxText + 1}

\* a schema that bounds the sender only
ValidBodySenderOnly(sender, text) == sender # Missing /\ sender <= MaxSender

\* body: z.object({sender: z.string().max(100), text: z.string().max(1000)})
ValidBody(sender, text) ==
    /\ sender # Missing /\ sender <= MaxSender
    /\ text # Missing /\ text <= MaxText

\* the derive hook, then the validation of the body
PostAuth(p) ==
    /\ IsNext(p)
    /\ \E roomId \in known \cup {NoRoom}, token \in Cookies, sender \in Senders, text \in Texts :
        LET a == Authenticate(roomId, token) IN
        IF a = "ok" /\ ValidBody(sender, text)
        THEN /\ req' = [req EXCEPT ![p] =
                    [Session(roomId, token) EXCEPT !.op = "post", !.pc = "p_exists",
                                                   !.msg.sender = sender, !.msg.text = text]]
             /\ UNCHANGED resp
        ELSE /\ req' = [req EXCEPT ![p] = DoneReq]
             /\ resp' = Response(p, "post", roomId, token,
                                 IF a = "ok" THEN "ValidationError" ELSE a)
    /\ UNCHANGED <<clock, meta, msgs, events, born, known, issued, nextRoom, nextToken, nextMsg, page>>

\* const roomExists = await redis.exists(`meta:${roomId}`); on success the
\* message is built: id: nanoid(), timestamp: Date.now(), roomId, token
PostExists(p) ==
    /\ req[p].pc = "p_exists"
    /\ IF Exists(meta[req[p].room])
       THEN /\ req' = [req EXCEPT ![p].pc = "p_rpush",
                                  ![p].msg = [@ EXCEPT !.id = nextMsg, !.timestamp = clock,
                                                       !.roomId = req[p].room,
                                                       !.token = req[p].token]]
            /\ nextMsg' = nextMsg + 1
            /\ UNCHANGED resp
       ELSE /\ req' = [req EXCEPT ![p] = DoneReq]
            /\ resp' = Response(p, "post", req[p].room, req[p].token, "RoomNotFound")
            /\ UNCHANGED nextMsg
    /\ UNCHANGED <<clock, meta, msgs, events, born, known, issued, nextRoom, nextToken, page>>

\* a message as a native object
Object(m) == [t |-> "object", v |-> m]

\* await redis.rpush(redisKey, JSON.stringify(message))
PostRpush(p) ==
    /\ req[p].pc = "p_rpush"
    /\ msgs' = [msgs EXCEPT ![req[p].room] = Rpush(@, Stringify(Object(req[p].msg)))]
    /\ req' = [req EXCEPT ![p].pc = "p_emit"]
    /\ UNCHANGED <<clock, meta, events, born, known, issued, resp, nextRoom, nextToken, nextMsg, page>>

\* a publish of the message as ListMessages hands it to the other participant
EmittedRedacted(message) == [message EXCEPT !.token = NoToken]

\* the payload of emit("chat.message", message): the message as it was built
Emitted(message) == message

\* await realtime.channel(roomId).emit("chat.message", message)
PostEmit(p) ==
    /\ req[p].pc = "p_emit"
    /\ events' = [events EXCEPT ![req[p].room] =
                    Append(@, [event |-> "chat.message", by |-> p,
                               data |-> Emitted(req[p].msg)])]
    /\ req' = [req EXCEPT ![p].pc = "p_ttl"]
    /\ UNCHANGED <<clock, meta, msgs, born, known, issued, resp, nextRoom, nextToken, nextMsg, page>>

\* const remaining = await redis.ttl(`meta:${roomId}`)
PostTtl(p) ==
    /\ req[p].pc = "p_ttl"
    /\ req' = [req EXCEPT ![p].pc = "p_expire", ![p].remaining = Ttl(meta[req[p].room])]
    /\ UNCHANGED <<clock, meta, msgs, events, born, known, issued, resp, nextRoom, nextToken, nextMsg, page>>

\* the seconds handed to redis.expire for the message log
RefreshSeconds(remaining) == remaining

\* await Promise.all([redis.expire(`messages:${roomId}`, remaining), ...]);
\* return {message}.  The other two calls of the Promise.all are on keys
\* (history:{roomId}, {roomId}) that no handler writes: they change nothing
\* here and are part of this step.
PostExpire(p) ==
    /\ req[p].pc = "p_expire"
    /\ msgs' = [msgs EXCEPT ![req[p].room] =
                    Expire(@, NoList, RefreshSeconds(req[p].remaining))]
    /\ req' = [req EXCEPT ![p] = DoneReq]
    /\ resp' = [Response(p, "post", req[p].room, req[p].token, "ok") EXCEPT
                    !.msg = req[p].msg]
    /\ UNCHANGED <<clock, meta, events, born, known, issued, nextRoom, nextToken, nextMsg, page>>

\* ----------------------------------------------------------- ListMessages
ListAuth(p) == AuthStep(p, "list", "l_lrange")

\* a reply that hands every message back as it was logged
RedactNothing(parsedToken, authToken) == parsedToken

\* token: parsed.token === auth.token ? auth.token : undefined
Redact(parsedToken, authToken) == IF parsedToken = authToken THEN authToken ELSE NoToken

\* a handler that only decodes strings: a native object is dropped
ListEntryStringsOnly(raw, authToken) ==
    IF raw.t = "json" /\ raw.v.t = "object"
        THEN <<[raw.v.v EXCEPT !.token = Redact(@, authToken)]>>
    ELSE <<>>

\* one entry of the log as the handler's map / filter treats it: the
\* sequence of the objects it contributes to the reply (none or one).  A
\* string that parses to a message object, or a native object, gives the
\* message; a string that parses to an array, or a native array, is spread
\* into an object that has none of the message's fields; null and a string
\* that does not parse give nothing.
ListEntry(raw, authToken) ==
    IF raw.t = "json" /\ raw.v.t = "object"
        THEN <<[raw.v.v EXCEPT !.token = Redact(@, authToken)]>>
    ELSE IF raw.t = "object"
        THEN <<[raw.v EXCEPT !.token = Redact(@, authToken)]>>
    ELSE IF raw.t = "array" \/ (raw.t = "json" /\ raw.v.t = "array")
        THEN <<[NoMsg EXCEPT !.token = Redact(@, authToken)]>>
    ELSE <<>>

RECURSIVE ListReply(_, _)
ListReply(raws, authToken) ==
    IF raws = <<>> THEN <<>>
    ELSE ListEntry(Head(raws), authToken) \o ListReply(Tail(raws), authToken)

\* const messagesRaw = await redis.lrange(redisKey, 0, -1); return {messages}
ListLrange(p) ==
    /\ req[p].pc = "l_lrange"
    /\ req' = [req EXCEPT ![p] = DoneReq]
    /\ resp' = [Response(p, "list", req[p].room, req[p].token, "ok") EXCEPT
                    !.outMsgs = ListReply(Lrange(msgs[req[p].room]), req[p].token)]
    /\ UNCHANGED <<clock, meta, msgs, events, born, known, issued, nextRoom, nextToken, nextMsg, page>>

\* ------------------------------------------------------------------- time
\* time passes; the store drops the keys whose expiration has been reached
Tick ==
    /\ clock < ROOM_TTL_SECONDS
    /\ clock' = clock + TickSeconds
    /\ meta' = [r \in Rooms |-> IF Expired(meta[r], clock') THEN NoMeta ELSE meta[r]]
    /\ msgs' = [r \in Rooms |-> IF Expired(msgs[r], clock') THEN NoList ELSE msgs[r]]
    /\ UNCHANGED <<events, born, known, issued, req, resp, nextRoom, nextToken, nextMsg, page>>

Next ==
    \/ \E p \in Reqs : CreateHset(p)
    \/ \E p \in Reqs : CreateExpire(p)
    \/ \E p \in Reqs : AdmitRead(p)
    \/ \E p \in Reqs : AdmitWrite(p)
    \/ \E p \in Reqs : TtlAuth(p)
    \/ \E p \in Reqs : TtlRead(p)
    \/ \E p \in Reqs : DestroyAuth(p)
    \/ \E p \in Reqs : DestroyEmit(p)
    \/ \E p \in Reqs : DestroyDel(p)
    \/ \E p \in Reqs : PostAuth(p)
    \/ \E p \in Reqs : PostExists(p)
    \/ \E p \in Reqs : PostRpush(p)
    \/ \E p \in Reqs : PostEmit(p)
    \/ \E p \in Reqs : PostTtl(p)
    \/ \E p \in Reqs : PostExpire(p)
    \/ \E p \in Reqs : ListAuth(p)
    \/ \E p \in Reqs : ListLrange(p)
    \/ Tick

Spec == Init /\ [][Next]_vars

\* ---------------------------------------------------------- admission race
\* An Admit without a cookie; any number of them may be in flight together.
RaceAdmit(p) == AdmitFrom(p, MaxReqs, {NoToken})

\* One room is created and every other request of the run is an Admit
\* without a cookie; no time passes.
NextRace ==
    \/ \E p \in Reqs : CreateHset(p)
    \/ \E p \in Reqs : CreateExpire(p)
    \/ \E p \in Reqs : RaceAdmit(p)
    \/ \E p \in Reqs : AdmitWrite(p)

SpecRace == Init /\ [][NextRace]_vars

\* ------------------------------------------------------ rooms and admissions
\* CreateRoom in the runs that create MaxRooms + ExtraRooms rooms
CreateMore(p) == CreateFrom(p, MaxRooms + ExtraRooms)

\* Rooms are created and visitors are admitted to them, with any cookie;
\* time passes.  These are the only handlers that write a membership list.
NextRooms ==
    \/ \E p \in Reqs : CreateMore(p)
    \/ \E p \in Reqs : CreateExpire(p)
    \/ \E p \in Reqs : AdmitRead(p)
    \/ \E p \in Reqs : AdmitWrite(p)
    \/ Tick

SpecRooms == Init /\ [][NextRooms]_vars

\* ---------------------------------------------------------- stored values
\* A room whose keys hold values in every shape the two decoders and the
\* message reader distinguish (written by this or an earlier version of the
\* program, or handed back already decoded by the store's client); then
\* visitors are admitted and sessions read the ttl and the messages.

\* the two tokens the stored values speak of
TokenA == 1
TokenB == 2

\* a string that is not JSON text
Text(x) == [t |-> "text", v |-> x]

\* the membership lists a stored value may hold
MemberLists == {<<>>, <<TokenA>>, <<TokenB>>, <<TokenA, TokenB>>, <<TokenB, TokenA>>}

\* the stored shapes of meta.connected: absent, a native list, the JSON text
\* of a list, the JSON text of a non-list, a native non-list, a non-JSON string
StoredConnected ==
    {NullRaw}
    \cup {Array(l) : l \in MemberLists}
    \cup {Stringify(Array(l)) : l \in MemberLists}
    \cup {Stringify(Object(NoMsg)), Object(NoMsg), Text(TokenA), Text(TokenB)}

\* two messages as PostMessage builds them
MessageOf(id, token) ==
    [id |-> id, sender |-> 5, text |-> 2, timestamp |-> 0, roomId |-> 1, token |-> token]

\* the stored shapes of a log entry: the JSON text of a message, a message as
\* a native object, a string that is not JSON text, null, the JSON text of an
\* array
StoredEntries ==
    {Stringify(Object(MessageOf(1, TokenA))), Object(MessageOf(2, TokenB)),
     Text(0), NullRaw, Stringify(Array(<<>>))}

\* the stored logs: up to two entries
StoredLogs ==
    {<<>>} \cup {<<e>> : e \in StoredEntries}
           \cup {<<e, f>> : e \in StoredEntries, f \in StoredEntries}

\* room 1 exists with 600 seconds to live; either its membership value has
\* one of the stored shapes and its log is empty, or its two members are
\* stored as CreateRoom and Admit write them and its log is a stored log
InitStored ==
    /\ clock = 0
    /\ \E c \in StoredConnected, l \in StoredLogs :
          /\ c = Stringify(Array(<<TokenA, TokenB>>)) \/ l = <<>>
          /\ meta = [r \in Rooms |->
                        IF r = 1 THEN [present |-> TRUE, connected |-> c,
                                       createdAt |-> 0, exp |-> ROOM_TTL_SECONDS]
                        ELSE NoMeta]
          /\ msgs = [r \in Rooms |->
                        IF r = 1 /\ l # <<>>
                        THEN [present |-> TRUE, list |-> l, exp |-> ROOM_TTL_SECONDS]
                        ELSE NoList]
    /\ events = [r \in Rooms |-> <<>>]
    /\ born = [r \in Rooms |-> IF r = 1 THEN 0 ELSE NoStamp]
    /\ known = {1}
    /\ issued = [r \in Rooms |-> IF r = 1 THEN {TokenA, TokenB} ELSE {}]
    /\ req = [p \in Reqs |-> IdleReq]
    /\ resp = NoResp
    /\ nextRoom = 2
    /\ nextToken = 3
    /\ nextMsg = 3
    /\ page = Mounted(NoTtlData)

NextStored ==
    \/ \E p \in Reqs : AdmitRead(p)
    \/ \E p \in Reqs : AdmitWrite(p)
    \/ \E p \in Reqs : TtlAuth(p)
    \/ \E p \in Reqs : TtlRead(p)
    \/ \E p \in Reqs : ListAuth(p)
    \/ \E p \in Reqs : ListLrange(p)

SpecStored == InitStored /\ [][NextStored]_vars

\* ------------------------------------------------------------ the room page
\* The page component of one participant: the ttl query, the effect that
\* syncs timeRemaining with it, the countdown effect with its one-second
\* interval, and the realtime subscription.  A state update schedules the
\* effects that depend on the value; they run in a later step.

\* the ttl values GetTTL hands to the page (never negative)
ServerTtls == 0..MaxPageTtl

\* const newTtl = ttlData.ttl > 0 ? ttlData.ttl : 0
NewTtl(ttl) == IF ttl > 0 THEN ttl ELSE 0

\* Math.abs
Abs(x) == IF x < 0 THEN -x ELSE x

\* a sync that also overwrites at a difference of exactly 5
SyncOverwritesFromThreshold(isSet, prev, newTtl) ==
    ~isSet \/ Abs(prev - newTtl) >= SyncThreshold

\* prev === null || Math.abs(prev - newTtl) > 5
SyncOverwrites(isSet, prev, newTtl) ==
    ~isSet \/ Abs(prev - newTtl) > SyncThreshold

\* an interval callback without the floor at 0
CountdownNoFloor(isSet, prev) == IF ~isSet THEN 0 ELSE prev - 1

\* setTimeRemaining((prev) => prev === null || prev <= 1 ? 0 : prev - 1)
Countdown(isSet, prev) == IF ~isSet \/ prev <= 1 THEN 0 ELSE prev - 1

\* the ttl query yields data other than the page holds: a ttl, or a reply
\* without one (res.data of a failed request)
PageTtlData ==
    /\ page.route = "room"
    /\ \E t \in {NoTtlData} \cup ServerTtls :
          /\ Mounted(t).hasTtl # page.hasTtl \/ Mounted(t).ttl # page.ttl
          /\ page' = [page EXCEPT !.hasTtl = Mounted(t).hasTtl,
                                  !.ttl = Mounted(t).ttl, !.syncDue = TRUE]
    /\ UNCHANGED serverVars

\* useEffect(() => {if (ttlData?.ttl !== undefined) {...}}, [ttlData?.ttl])
PageSync ==
    /\ page.route = "room"
    /\ page.syncDue
    /\ IF page.hasTtl /\ SyncOverwrites(page.isSet, page.timeRemaining, NewTtl(page.ttl))
       THEN page' = [page EXCEPT
                        !.isSet = TRUE, !.timeRemaining = NewTtl(page.ttl),
                        !.timerDue = @ \/ ~page.isSet
                                       \/ page.timeRemaining # NewTtl(page.ttl),
                        !.syncDue = FALSE]
       ELSE page' = [page EXCEPT !.syncDue = FALSE]
    /\ UNCHANGED serverVars

\* the countdown effect: the cleanup of its last run clears the interval;
\* at 0 it pushes the destroyed page, above 0 it starts a new interval
PageCountdown ==
    /\ page.route = "room"
    /\ page.timerDue
    /\ page' = [page EXCEPT
                    !.timerDue = FALSE,
                    !.interval = page.isSet /\ page.timeRemaining > 0,
                    !.route = IF page.isSet /\ page.timeRemaining = 0
                              THEN "destroyed" ELSE @]
    /\ UNCHANGED serverVars

\* the interval fires after a second
PageInterval ==
    /\ page.route = "room"
    /\ page.interval
    /\ page' = [page EXCEPT
                    !.isSet = TRUE,
                    !.timeRemaining = Countdown(page.isSet, page.timeRemaining),
                    !.timerDue = @ \/ ~page.isSet
                                   \/ page.timeRemaining
                                        # Countdown(page.isSet, page.timeRemaining)]
    /\ UNCHANGED serverVars

\* onData: if (event === "chat.destroy") router.push("/?destroyed=true")
PageDestroyEvent ==
    /\ page.route = "room"
    /\ page' = [page EXCEPT !.route = "destroyed"]
    /\ UNCHANGED serverVars

\* the page mounts without ttl data or with a cached ttl
InitPage == ServerInit /\ \E cached \in {NoTtlData} \cup ServerTtls : page = Mounted(cached)

NextPage ==
    \/ PageTtlData
    \/ PageSync
    \/ PageCountdown
    \/ PageInterval
    \/ PageDestroyEvent

SpecPage == InitPage /\ [][NextPage]_vars

\* ------------------------------------------------------------- properties
\* the membership list persisted for room r
Members(r) ==
    IF meta[r].present /\ meta[r].connected.t = "json" /\ meta[r].connected.v.t = "array"
    THEN meta[r].connected.v.v
    ELSE <<>>

\* every request of the run has produced its response
AllDone == \A p \in Reqs : req[p].pc = "done"

\* C1: when all the Admit calls racing on a fresh room have returned, exactly
\* two of them were Admitted (each Admitted call is handed one fresh token;
\* in SpecRace every other call ends RoomFull).
C1_ExactlyTwoAdmitted ==
    AllDone => \A r \in known : Cardinality(issued[r]) = 2

\* C2: the persisted membership list of every room has at most 2 entries.
C2_AtMostTwoMembers == \A r \in Rooms : Len(Members(r)) <= 2

\* C2 witness: three tokens were handed out for a room by racing admissions
\* and its persisted list holds two entries.
C2_Witness ==
    \E r \in Rooms : Len(Members(r)) = 2 /\ Cardinality(issued[r]) >= 3

\* C3: a token is in the persisted membership list when Admit hands it out,
\* and a token handed out stays in the list for as long as the room's
\* metadata exists.
C3_AdmittedTokenStays ==
    [][\A r \in Rooms : \A t \in issued'[r] :
          /\ t \notin issued[r] => t \in SeqToSet(Members(r)')
          /\ (t \in SeqToSet(Members(r)) /\ meta'[r].present) => t \in SeqToSet(Members(r)')
      ]_vars

\* the request that makes its first step in this step
Arrives(p) == req[p].pc = "idle" /\ req'[p].pc # "idle"
\* what the request p that has just made its first step asked for
ArrivedOp(p) == IF req'[p].pc = "done" THEN resp'.op ELSE req'[p].op
ArrivedRoom(p) == IF req'[p].pc = "done" THEN resp'.room ELSE req'[p].room
ArrivedToken(p) == IF req'[p].pc = "done" THEN resp'.token ELSE req'[p].token

\* C4: Admit with a cookie that is in the room's membership list answers
\* Reuse with that token, issues no token and leaves the store as it is.
C4_ReuseIsIdempotent ==
    [][\A p \in Reqs :
          (/\ Arrives(p) /\ ArrivedOp(p) = "admit"
           /\ ArrivedToken(p) \in SeqToSet(Members(ArrivedRoom(p))))
          => /\ req'[p].pc = "done"
             /\ resp'.id = p /\ resp'.outcome = "Reuse"
             /\ resp'.outToken = ArrivedToken(p)
             /\ meta' = meta /\ issued' = issued /\ nextToken' = nextToken
      ]_vars

\* C4 witness: a Reuse answer for a room with two members.
C4_Witness ==
    /\ resp.op = "admit" /\ resp.outcome = "Reuse"
    /\ resp.room \in Rooms /\ Len(Members(resp.room)) = 2
    /\ resp.outToken \in SeqToSet(Members(resp.room))

\* DestroyRoom has completed for room r
Destroyed(r) ==
    \E i \in DOMAIN events[r] :
        events[r][i].event = "chat.destroy" /\ req[events[r][i].by].pc = "done"

\* C5: a request for a room that arrives after DestroyRoom has completed for
\* it is turned away: it never passes admission or authentication, and it is
\* never answered RoomFull.
C5_NothingAfterDestroy ==
    [][\A p \in Reqs :
          (/\ Arrives(p) /\ ArrivedOp(p) \in {"admit", "post", "list"}
           /\ ArrivedRoom(p) \in Rooms /\ Destroyed(ArrivedRoom(p)))
          => /\ req'[p].pc = "done"
             /\ resp'.outcome \in {"RoomNotFound", "InvalidToken", "Unauthorized"}
      ]_vars

\* C6: no key of a room exists 600 seconds after CreateRoom returned the
\* room, also when every request has run to its end.
C6_NoKeyOutlivesTtl ==
    \A r \in Rooms :
        (InFlight = {} /\ born[r] # NoStamp /\ clock >= born[r] + ROOM_TTL_SECONDS)
        => ~meta[r].present /\ ~msgs[r].present

\* the chat.destroy event of request p is on the channel of its room
HasPublishedDestroy(p) ==
    \E i \in DOMAIN events[req[p].room] :
        events[req[p].room][i].event = "chat.destroy" /\ events[req[p].room][i].by = p

\* C7: every deletion of DestroyRoom happens after the request's chat.destroy
\* event has been published.
C7_PublishBeforeDelete ==
    [][\A p \in Reqs : DestroyDel(p) => HasPublishedDestroy(p)]_vars

\* C7 witness: a DestroyRoom that has deleted the metadata and still has a
\* deletion to do.
C7_Witness ==
    \E p \in Reqs :
        /\ req[p].op = "destroy" /\ req[p].pc = "d_del"
        /\ "meta" \notin req[p].pending /\ req[p].pending # {}
        /\ HasPublishedDestroy(p)

ApiOps == {"ttl", "destroy", "post", "list"}

\* C8: Authenticate fails with Unauthorized when roomId or token is missing,
\* with InvalidToken when the room's membership list does not hold the token,
\* and otherwise passes with the session {roomId, token, connected} of the
\* list just read.
C8_Authenticate ==
    [][\A p \in Reqs :
          (Arrives(p) /\ ArrivedOp(p) \in ApiOps) =>
            LET roomId == ArrivedRoom(p)
                token == ArrivedToken(p)
            IN  IF roomId = NoRoom \/ token = NoToken
                    THEN req'[p].pc = "done" /\ resp'.outcome = "Unauthorized"
                ELSE IF token \notin SeqToSet(Members(roomId))
                    THEN req'[p].pc = "done" /\ resp'.outcome = "InvalidToken"
                ELSE \/ /\ req'[p].pc \notin {"idle", "done"}
                        /\ req'[p].connected = Members(roomId)
                     \/ /\ req'[p].pc = "done" /\ resp'.op = "post"
                        /\ resp'.outcome = "ValidationError"
      ]_vars

\* C8 witness: a token that Admit has handed out is refused as InvalidToken
\* while another request holds a session with two members.
C8_Witness ==
    /\ resp.op \in ApiOps /\ resp.outcome = "InvalidToken"
    /\ resp.room \in Rooms /\ resp.token \in issued[resp.room]
    /\ \E p \in Reqs : req[p].op \in ApiOps /\ req[p].token \in SeqToSet(req[p].connected)

\* the message a log entry written by PostMessage holds
Logged(entry) == entry.v.v

\* C9: ListMessages returns the log in order; each message keeps its token
\* when that is the requester's and has it cleared otherwise.
C9_Redaction ==
    [][\A p \in Reqs : ListLrange(p) =>
          LET log == IF msgs[req[p].room].present THEN msgs[req[p].room].list ELSE <<>>
              own == req[p].token
          IN  /\ resp'.id = p
              /\ Len(resp'.outMsgs) = Len(log)
              /\ \A i \in DOMAIN log :
                    /\ resp'.outMsgs[i].token \in {own, NoToken}
                    /\ resp'.outMsgs[i] =
                          [Logged(log[i]) EXCEPT
                              !.token = IF Logged(log[i]).token = own THEN own ELSE NoToken]
      ]_vars

\* C9 witness: a reply that holds a message of the other participant, its
\* token cleared.
C9_Witness ==
    /\ resp.op = "list" /\ resp.outcome = "ok"
    /\ \E i \in DOMAIN resp.outMsgs :
          /\ resp.outMsgs[i].token = NoToken
          /\ \E j \in DOMAIN events[resp.room] :
                /\ events[resp.room][j].event = "chat.message"
                /\ events[resp.room][j].data.id = resp.outMsgs[i].id
                /\ events[resp.room][j].data.token \notin {NoToken, resp.token}

\* TTL of a key of the state after the step
TtlAfter(k) == IF ~k.present THEN TtlNoKey
               ELSE IF k.exp = NoExp THEN TtlNoExpire
               ELSE k.exp - clock'

\* C10: when PostMessage returns its message, the remaining time-to-live of
\* the message log equals that of the room's metadata.
C10_LogTtlEqualsRoomTtl ==
    [][\A p \in Reqs : PostExpire(p) =>
          TtlAfter(msgs'[req[p].room]) = TtlAfter(meta'[req[p].room])
      ]_vars

\* C11: the ttl GetRemainingTTL returns is never negative; it is 0 when the
\* room's metadata key does not exist (expired or deleted) or carries no
\* expiration, and the seconds left to the key's expiration otherwise.
C11_TtlNeverNegative ==
    [][\A p \in Reqs : TtlRead(p) =>
          LET m == meta[req[p].room] IN
          /\ resp'.id = p /\ resp'.outcome = "ok"
          /\ resp'.outTtl >= 0
          /\ ~m.present => resp'.outTtl = 0
          /\ (m.present /\ m.exp = NoExp) => resp'.outTtl = 0
          /\ (m.present /\ m.exp # NoExp) => resp'.outTtl = m.exp - clock
      ]_vars

\* C11 witness: GetRemainingTTL has answered 0 for a room whose metadata
\* expired after the request was authenticated.
C11_Witness ==
    /\ resp.op = "ttl" /\ resp.outcome = "ok" /\ resp.outTtl = 0
    /\ ~meta[resp.room].present
    /\ born[resp.room] # NoStamp /\ clock >= born[resp.room] + ROOM_TTL_SECONDS

\* C12: PostMessage of an authenticated session ends with RoomNotFound when
\* the metadata key does not exist at its existence check; the request then
\* is over, and it has appended nothing, published nothing and refreshed no
\* expiration.
C12_PostRoomNotFound ==
    [][\A p \in Reqs :
          (req[p].pc = "p_exists" /\ req'[p] # req[p] /\ ~meta[req[p].room].present)
          => /\ req'[p].pc = "done"
             /\ resp'.id = p /\ resp'.op = "post" /\ resp'.outcome = "RoomNotFound"
             /\ resp'.msg = NoMsg
             /\ msgs' = msgs /\ events' = events /\ meta' = meta /\ nextMsg' = nextMsg
      ]_vars

\* C12 witness: a PostMessage that passed authentication was answered
\* RoomNotFound after DestroyRoom had deleted the metadata.
C12_Witness ==
    /\ resp.op = "post" /\ resp.outcome = "RoomNotFound"
    /\ resp.token \in issued[resp.room]
    /\ ~meta[resp.room].present
    /\ events[resp.room] # <<>>

\* the ids of the messages of a sequence of log entries / of messages
EntryIds(raws) == [i \in DOMAIN raws |-> Logged(raws[i]).id]
MessageIds(ms) == [i \in DOMAIN ms |-> ms[i].id]

\* C13: the message log is append-only.  A step leaves the log of a room as
\* it is, removes it whole (DestroyRoom, expiration), or is the append of a
\* PostMessage, which adds that request's message, and only it, at the end.
\* ListMessages returns the messages in the order of the log.
C13_AppendOnly ==
    [][/\ \A r \in Rooms :
            \/ msgs'[r] = NoList
            \/ Lrange(msgs'[r]) = Lrange(msgs[r])
            \/ \E p \in Reqs :
                  /\ req[p].pc = "p_rpush" /\ req[p].room = r /\ req'[p].pc = "p_emit"
                  /\ Len(Lrange(msgs'[r])) = Len(Lrange(msgs[r])) + 1
                  /\ SubSeq(Lrange(msgs'[r]), 1, Len(Lrange(msgs[r]))) = Lrange(msgs[r])
                  /\ Logged(Lrange(msgs'[r])[Len(Lrange(msgs'[r]))]) = req[p].msg
       /\ \A p \in Reqs :
            (req[p].pc = "p_rpush" /\ req'[p] # req[p]) =>
                Lrange(msgs'[req[p].room]) # Lrange(msgs[req[p].room])
       /\ \A p \in Reqs :
            (req[p].pc = "l_lrange" /\ req'[p] # req[p]) =>
                MessageIds(resp'.outMsgs) = EntryIds(Lrange(msgs[req[p].room]))
      ]_vars

\* C13 witness: the log holds the messages of the two participants, whose
\* posts overlapped, in the order of their appends: the message built second
\* was appended first.
C13_Witness ==
    \E r \in Rooms :
        /\ Len(Lrange(msgs[r])) = 2
        /\ Logged(msgs[r].list[1]).id > Logged(msgs[r].list[2]).id
        /\ Logged(msgs[r].list[1]).token # Logged(msgs[r].list[2]).token

\* C14: Admit on a room whose metadata does not exist answers RoomNotFound;
\* it hands out no token and writes nothing to the store.
C14_AdmitRoomNotFound ==
    [][\A p \in Reqs :
          (/\ Arrives(p) /\ ArrivedOp(p) = "admit"
           /\ ~meta[ArrivedRoom(p)].present)
          => /\ req'[p].pc = "done"
             /\ resp'.id = p /\ resp'.outcome = "RoomNotFound"
             /\ resp'.outToken = NoToken
             /\ meta' = meta /\ msgs' = msgs /\ issued' = issued
             /\ nextToken' = nextToken
      ]_vars

\* C14 witness: a visitor who had been admitted comes back with the token
\* after the room's 600 seconds and is answered RoomNotFound.
C14_Witness ==
    /\ resp.op = "admit" /\ resp.outcome = "RoomNotFound"
    /\ resp.token \in issued[resp.room]
    /\ ~meta[resp.room].present
    /\ clock >= born[resp.room] + ROOM_TTL_SECONDS

\* C15: Admit without a recognised token on a room whose list holds 2 entries
\* answers RoomFull, hands out no token and leaves the list as it is; on a
\* room with fewer entries it goes on to its write, and a write that finds the
\* list as the request read it (as in a sequential run) answers Admitted with
\* a token never handed out before and appends it to the list.  So CreateRoom,
\* Admit, Admit, Admit one after the other gives Admitted, Admitted with
\* another token, RoomFull.
C15_RoomFull ==
    [][\A p \in Reqs :
          /\ (/\ Arrives(p) /\ ArrivedOp(p) = "admit"
              /\ meta[ArrivedRoom(p)].present
              /\ ArrivedToken(p) \notin SeqToSet(Members(ArrivedRoom(p))))
             => IF Len(Members(ArrivedRoom(p))) >= 2
                THEN /\ req'[p].pc = "done"
                     /\ resp'.id = p /\ resp'.outcome = "RoomFull"
                     /\ resp'.outToken = NoToken
                     /\ meta' = meta /\ issued' = issued /\ nextToken' = nextToken
                ELSE /\ req'[p].pc = "a_write"
                     /\ req'[p].connected = Members(ArrivedRoom(p))
                     /\ meta' = meta /\ issued' = issued
          /\ (/\ req[p].pc = "a_write" /\ req'[p] # req[p]
              /\ meta[req[p].room].present
              /\ Members(req[p].room) = req[p].connected)
             => /\ resp'.id = p /\ resp'.outcome = "Admitted"
                /\ resp'.outToken # NoToken
                /\ \A r \in Rooms : resp'.outToken \notin issued[r]
                /\ \A r \in Rooms : r = req[p].room =>
                      Members(r)' = Append(Members(r), resp'.outToken)
      ]_vars

\* C15 witness: CreateRoom and three Admit calls without a cookie, at time 0:
\* two tokens are in the list and the fourth request is answered RoomFull.
C15_Witness ==
    /\ resp.id = 4 /\ resp.op = "admit" /\ resp.outcome = "RoomFull"
    /\ resp.token = NoToken /\ resp.outToken = NoToken
    /\ Members(resp.room) = <<1, 2>> /\ issued[resp.room] = {1, 2}
    /\ nextToken = 3 /\ clock = 0

\* C16: when CreateRoom returns a roomId, that id was not returned before,
\* the room's metadata exists with the membership list [] and a creation
\* timestamp, and the key expires in 600 seconds.
C16_CreateRoom ==
    [][\A p \in Reqs :
          (req[p].pc = "c_expire" /\ req'[p] # req[p]) =>
            LET r == req[p].room IN
            /\ resp'.id = p /\ resp'.outcome = "Created" /\ resp'.room = r
            /\ r \notin known /\ r \in known'
            /\ meta'[r].present
            /\ meta'[r].connected = Stringify(Array(<<>>))
            /\ ProxyConnected(meta'[r].connected) = <<>>
            /\ AuthConnected(meta'[r].connected) = <<>>
            /\ meta'[r].createdAt # NoStamp /\ meta'[r].createdAt <= clock
            /\ TtlAfter(meta'[r]) = ROOM_TTL_SECONDS
      ]_vars

\* C16 witness: a second room has been returned, created while time passed
\* between its two store calls and while the first room has a member.
C16_Witness ==
    /\ resp.op = "create" /\ resp.outcome = "Created"
    /\ \E r \in known : r # resp.room /\ Members(r) # <<>>
    /\ meta[resp.room].present /\ Members(resp.room) = <<>>
    /\ meta[resp.room].createdAt < clock
    /\ meta[resp.room].exp = clock + ROOM_TTL_SECONDS

\* what the caller receives of a response
Visible(r) == [status |-> r.status, error |-> r.error, outToken |-> r.outToken,
               outTtl |-> r.outTtl, outMsgs |-> r.outMsgs, msg |-> r.msg]

\* C17: a room-scoped request that fails authentication receives status 401
\* with the body {error: "Unauthorized"} and nothing else, whether a
\* credential was missing or the token was not in the room's list; the
\* request changes nothing.
C17_UniformDenial ==
    [][\A p \in Reqs :
          (/\ Arrives(p) /\ ArrivedOp(p) \in ApiOps
           /\ req'[p].pc = "done" /\ resp'.outcome \in AuthErrors)
          => /\ resp'.id = p
             /\ Visible(resp') = [status |-> AuthErrorStatus, error |-> "Unauthorized",
                                  outToken |-> NoToken, outTtl |-> 0,
                                  outMsgs |-> <<>>, msg |-> NoMsg]
             /\ UNCHANGED <<clock, meta, msgs, events, known, issued,
                            nextRoom, nextToken, nextMsg>>
      ]_vars

\* C17 witness: a request with a token of the caller's own making for an
\* existing room with a member was denied as InvalidToken.
C17_Witness ==
    /\ resp.op \in ApiOps /\ resp.outcome = "InvalidToken"
    /\ resp.token = Forged
    /\ resp.room \in Rooms /\ Members(resp.room) # <<>>
    /\ resp.status = AuthErrorStatus /\ resp.error = "Unauthorized"

\* C18: every token in a room's membership list was generated by Admit for
\* that room, no token is in the lists of two rooms, and the token of an
\* Admitted answer is never the cookie the caller presented.
C18_TokensAreFresh ==
    /\ \A r \in Rooms : SeqToSet(Members(r)) \subseteq issued[r]
    /\ \A r1, r2 \in Rooms :
          r1 # r2 => SeqToSet(Members(r1)) \cap SeqToSet(Members(r2)) = {}
    /\ (resp.op = "admit" /\ resp.outcome = "Admitted")
          => /\ resp.outToken \notin {NoToken, Forged, resp.token}
             /\ resp.outToken \in issued[resp.room]

\* C18 witness: a visitor presenting the token of one room was admitted to
\* another room, and both rooms have members.
C18_Witness ==
    /\ resp.op = "admit" /\ resp.outcome = "Admitted"
    /\ \E r \in Rooms :
          /\ r # resp.room /\ resp.token \in SeqToSet(Members(r))
    /\ resp.outToken \in SeqToSet(Members(resp.room))

\* C19: a GetTTL, DestroyRoom, PostMessage or ListMessages request whose
\* token is not in the room's list at its arrival is denied in that step and
\* changes nothing; a request that passes holds the list read in that step,
\* with its token in it; every later step of a request is a step of such a
\* session, and the message logs and channels change only by such steps (or by
\* expiry).
C19_FreshAuthorisation ==
    [][/\ \A p \in Reqs :
            (Arrives(p) /\ ArrivedOp(p) \in ApiOps) =>
               IF \/ ArrivedRoom(p) = NoRoom
                  \/ ArrivedToken(p) \notin SeqToSet(Members(ArrivedRoom(p)))
               THEN /\ req'[p].pc = "done" /\ resp'.id = p
                    /\ resp'.outcome \in AuthErrors
                    /\ UNCHANGED <<meta, msgs, events, issued, nextMsg>>
               ELSE \/ /\ req'[p].pc \notin {"idle", "done"}
                       /\ req'[p].connected = Members(ArrivedRoom(p))
                       /\ req'[p].token \in SeqToSet(req'[p].connected)
                    \/ /\ req'[p].pc = "done" /\ resp'.outcome = "ValidationError"
       /\ \A p \in Reqs :
            (req[p].op \in ApiOps /\ req'[p] # req[p]) =>
                req[p].token \in SeqToSet(req[p].connected)
       /\ (msgs' # msgs \/ events' # events) =>
             \/ clock' # clock
             \/ \E p \in Reqs :
                   /\ req[p].op \in ApiOps /\ req'[p] # req[p]
                   /\ req[p].token \in SeqToSet(req[p].connected)
      ]_vars

\* C19 witness: a token Admit had handed out, then lost from the list of the
\* room, which still exists with a member, was denied.
C19_Witness ==
    /\ resp.op \in ApiOps /\ resp.outcome = "InvalidToken"
    /\ resp.room \in Rooms /\ resp.token \in issued[resp.room]
    /\ meta[resp.room].present /\ Members(resp.room) # <<>>

\* the positions of the chat.message events of room r for the message id
EventsFor(r, id) ==
    {i \in DOMAIN events[r] :
        events[r][i].event = "chat.message" /\ events[r][i].data.id = id}

\* every message in a log has been published once, or its PostMessage is
\* about to publish it; no message has been published twice
PublishedOnce ==
    \A r \in Rooms :
        /\ \A i \in DOMAIN Lrange(msgs[r]) :
              LET id == Logged(Lrange(msgs[r])[i]).id IN
              \/ Cardinality(EventsFor(r, id)) = 1
              \/ /\ EventsFor(r, id) = {}
                 /\ \E p \in Reqs : req[p].pc = "p_emit" /\ req[p].msg.id = id
        /\ \A j \in DOMAIN events[r] :
              events[r][j].event = "chat.message" =>
                  Cardinality(EventsFor(r, events[r][j].data.id)) = 1

\* C20: PostMessage appends its message, then publishes one chat.message
\* event carrying that message with the author's token, then reads the ttl
\* and refreshes the expiration, then responds with the message; every
\* appended message is published once, and a PostMessage that fails has
\* published nothing.
C20_PostOrder ==
    [][/\ \A p \in Reqs :
            /\ (req[p].pc = "p_rpush" /\ req'[p] # req[p]) =>
                  /\ EventsFor(req[p].room, req[p].msg.id) = {}
                  /\ events' = events /\ req'[p].pc = "p_emit"
                  /\ Logged(Lrange(msgs'[req[p].room])[Len(Lrange(msgs'[req[p].room]))])
                        = req[p].msg
            /\ (req[p].pc = "p_emit" /\ req'[p] # req[p]) =>
                  /\ EventsFor(req[p].room, req[p].msg.id) = {}
                  /\ events'[req[p].room] =
                        Append(events[req[p].room],
                               [event |-> "chat.message", by |-> p, data |-> req[p].msg])
                  /\ req[p].msg.token = req[p].token /\ req[p].token # NoToken
                  /\ msgs' = msgs /\ req'[p].pc = "p_ttl"
            /\ (req[p].pc = "p_ttl" /\ req'[p] # req[p]) =>
                  /\ events' = events /\ msgs' = msgs /\ req'[p].pc = "p_expire"
            /\ (req[p].pc = "p_expire" /\ req'[p] # req[p]) =>
                  /\ events' = events /\ req'[p].pc = "done"
                  /\ resp'.id = p /\ resp'.outcome = "ok" /\ resp'.msg = req[p].msg
                  /\ \E i \in EventsFor(req[p].room, req[p].msg.id) :
                        events[req[p].room][i].data = resp'.msg
       /\ (resp' # resp /\ resp'.op = "post" /\ resp'.outcome # "ok") =>
             /\ events' = events /\ msgs' = msgs
             /\ \A r \in Rooms : \A i \in DOMAIN events[r] : events[r][i].by # resp'.id
       /\ PublishedOnce'
      ]_vars

\* C20 witness: a PostMessage has responded with its message, which is in the
\* log and was published once with the author's token.
C20_Witness ==
    /\ resp.op = "post" /\ resp.outcome = "ok" /\ resp.msg.token = resp.token
    /\ \E i \in DOMAIN Lrange(msgs[resp.room]) :
          Logged(Lrange(msgs[resp.room])[i]) = resp.msg
    /\ Cardinality(EventsFor(resp.room, resp.msg.id)) = 1
    /\ \E i \in EventsFor(resp.room, resp.msg.id) :
          events[resp.room][i].data = resp.msg

\* C23: once the metadata key of a room that CreateRoom returned is gone
\* (deleted by DestroyRoom or expired), it stays gone: no later write brings
\* it back.
C23_NoResurrection ==
    [][\A r \in Rooms :
          (born[r] # NoStamp /\ ~meta[r].present) => ~meta'[r].present
      ]_vars

\* C24: PostMessage appends only to the log of a room whose metadata exists
\* at the append, and the message of a successful PostMessage is in the log
\* when the request responds.
C24_NoPostToGoneRoom ==
    [][\A p \in Reqs :
          /\ (req[p].pc = "p_rpush" /\ req'[p] # req[p]) => meta[req[p].room].present
          /\ (req[p].pc = "p_expire" /\ req'[p] # req[p]) =>
                \E i \in DOMAIN Lrange(msgs'[req[p].room]) :
                    Logged(Lrange(msgs'[req[p].room])[i]) = req[p].msg
      ]_vars

\* C25: on the channel of a room no chat.message event follows a
\* chat.destroy event.
C25_NoMessageAfterDestroy ==
    \A r \in Rooms : \A i, j \in DOMAIN events[r] :
        (i < j /\ events[r][i].event = "chat.destroy")
            => events[r][j].event # "chat.message"

\* C26: the metadata key of a room, while it exists, expires at the instant
\* CreateRoom set: 600 seconds after CreateRoom returned; no other request
\* moves or removes that expiration.
C26_ExpirationSetOnce ==
    \A r \in Rooms :
        (born[r] # NoStamp /\ meta[r].present)
            => meta[r].exp = born[r] + ROOM_TTL_SECONDS

\* C27: a PostMessage goes on to its handler only with a sender of at most
\* 100 and a text of at most 1000 characters, both present; otherwise it is
\* rejected in its first step, with a validation error when the session
\* authenticates, and the rejected request appends nothing, publishes nothing
\* and refreshes no expiration.
C27_BodyValidation ==
    [][\A p \in Reqs :
          (Arrives(p) /\ ArrivedOp(p) = "post") =>
             IF req'[p].pc # "done"
             THEN /\ req'[p].msg.sender # Missing /\ req'[p].msg.sender <= 100
                  /\ req'[p].msg.text # Missing /\ req'[p].msg.text <= 1000
             ELSE /\ resp'.id = p /\ resp'.msg = NoMsg
                  /\ resp'.outcome \in AuthErrors \cup {"ValidationError"}
                  /\ (ArrivedRoom(p) # NoRoom
                        /\ ArrivedToken(p) \in SeqToSet(Members(ArrivedRoom(p))))
                       => resp'.outcome = "ValidationError"
                  /\ UNCHANGED <<meta, msgs, events, nextMsg>>
      ]_vars

\* C27 witness: a participant whose message is in the log has had a
\* PostMessage rejected with a validation error.
C27_Witness ==
    /\ resp.op = "post" /\ resp.outcome = "ValidationError"
    /\ resp.token \in SeqToSet(Members(resp.room))
    /\ \E i \in DOMAIN Lrange(msgs[resp.room]) :
          Logged(Lrange(msgs[resp.room])[i]).token = resp.token

\* the token sequence a stored membership value holds: that of a native list
\* or of the JSON text of a list, and none otherwise
Held(raw) ==
    IF raw.t = "array" THEN raw.v
    ELSE IF raw.t = "json" /\ raw.v.t = "array" THEN raw.v.v
    ELSE <<>>

\* C21: whatever the stored shape of the membership value, a request with
\* both credentials is authenticated exactly when its token is in the token
\* sequence the value holds, with that sequence as its session's list, and is
\* denied as InvalidToken otherwise; no other failure comes from the decoding.
C21_DecodeNeverFails ==
    [][\A p \in Reqs :
          (/\ Arrives(p) /\ ArrivedOp(p) \in ApiOps
           /\ ArrivedRoom(p) # NoRoom /\ ArrivedToken(p) # NoToken) =>
             LET held == Held(Hget(meta[ArrivedRoom(p)])) IN
             IF ArrivedToken(p) \in SeqToSet(held)
             THEN /\ req'[p].pc \notin {"idle", "done"}
                  /\ req'[p].connected = held
             ELSE /\ req'[p].pc = "done" /\ resp'.id = p
                  /\ resp'.outcome = "InvalidToken"
                  /\ resp'.status = AuthErrorStatus
      ]_vars

\* C21 witness: the membership value is a string that is not JSON text, and
\* a request whose token is that very string was denied as InvalidToken.
C21_Witness ==
    /\ resp.op \in ApiOps /\ resp.outcome = "InvalidToken"
    /\ resp.room \in Rooms
    /\ meta[resp.room].connected = Text(resp.token)

\* C22: Admit and Authenticate read the same members out of every stored
\* membership value: a token Admit recognises (Reuse) is not denied by
\* Authenticate, and an Admit on a value Authenticate reads as empty sees an
\* empty room.
C22_SameDecoding ==
    [][\A p \in Reqs :
          /\ (/\ Arrives(p) /\ ArrivedOp(p) \in ApiOps
              /\ ArrivedRoom(p) # NoRoom
              /\ AdmitDecision(meta[ArrivedRoom(p)], ArrivedToken(p)) = "Reuse")
             => ~(req'[p].pc = "done" /\ resp'.outcome = "InvalidToken")
          /\ (/\ Arrives(p) /\ ArrivedOp(p) = "admit"
              /\ meta[ArrivedRoom(p)].present
              /\ AuthConnected(Hget(meta[ArrivedRoom(p)])) = <<>>)
             => /\ req'[p].pc = "a_write"
                /\ req'[p].connected = <<>>
      ]_vars

\* what a log entry holds for ListMessages: a message, an object without the
\* fields of a message (an array), or nothing that can be decoded
Decodable(raw) == raw.t = "object" \/ (raw.t = "json" /\ raw.v.t = "object")
Spreadable(raw) == raw.t = "array" \/ (raw.t = "json" /\ raw.v.t = "array")
MessageIn(raw) == IF raw.t = "object" THEN raw.v ELSE raw.v.v

\* the reply ListMessages owes for a log, entry by entry
RECURSIVE Owed(_, _)
Owed(raws, own) ==
    IF raws = <<>> THEN <<>>
    ELSE (IF Decodable(Head(raws))
            THEN <<[MessageIn(Head(raws)) EXCEPT
                      !.token = IF MessageIn(Head(raws)).token = own THEN own ELSE NoToken]>>
          ELSE IF Spreadable(Head(raws)) THEN <<NoMsg>>
          ELSE <<>>)
         \o Owed(Tail(raws), own)

\* C28: ListMessages answers ok whatever the log holds; its reply has every
\* decodable message of the log, in log order, and nothing for an entry that
\* is null or a string that does not parse.
C28_SkipsUndecodable ==
    [][\A p \in Reqs :
          (req[p].pc = "l_lrange" /\ req'[p] # req[p]) =>
             /\ req'[p].pc = "done" /\ resp'.id = p /\ resp'.outcome = "ok"
             /\ resp'.outMsgs = Owed(Lrange(msgs[req[p].room]), req[p].token)
      ]_vars

\* C28 witness: the log holds a string that does not parse in front of a
\* message, and the reply is that message alone.
C28_Witness ==
    /\ resp.op = "list" /\ resp.outcome = "ok"
    /\ Len(Lrange(msgs[resp.room])) = 2
    /\ Lrange(msgs[resp.room])[1] = Text(0)
    /\ Decodable(Lrange(msgs[resp.room])[2])
    /\ Len(resp.outMsgs) = 1 /\ resp.outMsgs[1].id = MessageIn(Lrange(msgs[resp.room])[2]).id

\* the countdown has reached 0 and the countdown effect has run: the page
\* has left for the destroyed page
LeftAtZero ==
    (page.isSet /\ page.timeRemaining = 0 /\ ~page.timerDue) => page.route = "destroyed"

\* C29: the countdown, once set, stays set and is never negative; a tick of
\* the interval takes one off it, down to 0; any other change of it is a sync
\* that sets it to the server's ttl, and only when it was unset or more than 5
\* away from that ttl; the page leaves for the destroyed page when the
\* countdown effect finds 0 or a chat.destroy event arrives, and for no other
\* reason.
C29_Countdown ==
    [][/\ page'.isSet => page'.timeRemaining >= 0
       /\ page.isSet => page'.isSet
       /\ PageInterval =>
             page'.timeRemaining =
                 IF page.timeRemaining >= 1 THEN page.timeRemaining - 1 ELSE 0
       /\ (/\ ~PageInterval
           /\ page'.isSet # page.isSet \/ page'.timeRemaining # page.timeRemaining)
             => /\ page.hasTtl /\ page'.isSet
                /\ page'.timeRemaining = page.ttl
                /\ \/ ~page.isSet
                   \/ page.timeRemaining - page.ttl > SyncThreshold
                   \/ page.ttl - page.timeRemaining > SyncThreshold
       /\ PageDestroyEvent => page'.route = "destroyed"
       /\ (page.route = "room" /\ page'.route = "destroyed")
             => PageDestroyEvent \/ (page.isSet /\ page.timeRemaining = 0)
       /\ page.route = "destroyed" => page' = page
       /\ LeftAtZero'
      ]_vars

\* C29 witness: the page has counted down next to a server ttl it did not
\* take over, because the two are 5 or less apart.
C29_Witness ==
    /\ page.route = "room" /\ page.isSet /\ page.hasTtl /\ ~page.syncDue
    /\ page.timeRemaining > 0
    /\ page.timeRemaining # page.ttl
    /\ Abs(page.timeRemaining - page.ttl) = SyncThreshold

====
